---- MODULE Spec2Model ----
(***************************************************************************)
(* Disk layout planning of archinstall:                                    *)
(*   src/archinstall/lib/user_interaction/disk_conf.py                     *)
(*                                                                         *)
(* Every storage quantity is an integer number of MiB: all the sizes the   *)
(* planners build are whole MiB or GiB, and 60 GiB in bytes does not fit   *)
(* the model checker's integers.  disk.Size, disk.Unit and the partition   *)
(* records live in the package `disk`, which is not among the source       *)
(* files; they are modelled from the specification's data model.           *)
(*                                                                         *)
(* One action is one call of a planner.  The answers the user gives to     *)
(* the menus are inputs of the call; `prompts` records each menu that was  *)
(* run during the last call, with its answer, in the order shown.          *)
(***************************************************************************)
EXTENDS Integers, Sequences, FiniteSets

VARIABLES uefi, op, args, prompts, home_device, root_device, result, raised

\* the selection flows: the devices the device handler reports, the preset
\* the caller passed, that same object as the call left it, what the call
\* returned, and the planners and collaborators it called, in order
VARIABLES handler_devices, preset, preset_after, returned, calls

vars == <<uefi, op, args, prompts, home_device, root_device, result, raised, handler_devices, preset, preset_after, returned, calls>>

selection_vars == <<handler_devices, preset, preset_after, returned, calls>>

None == "None"

\* Optional[bool] of separate_home
PyTrue == "True"
PyFalse == "False"

\* Optional[BDevice]: the value None
NoDevice == [path |-> 0, total_size |-> 0]

(* ---- bounds ---------------------------------------------------------- *)
MaxDevices == 3

(* ---- disk.Unit / disk.Size ------------------------------------------- *)
MiB == 1
GiB == 1024

Size(value, unit) == value * unit

\* Size(value, Unit.Percent, total_size=...): resolved against the total
SizePercent(value, total_size) == (total_size * value) \div 100

SizeMin(a, b) == IF b < a THEN b ELSE a

\* Size.__sub__ as the specification describes it: a signed difference
SizeSub(a, b) == a - b

(* ---- the inputs ------------------------------------------------------ *)
Paths == 1..MaxDevices

DeviceSizes ==
    { Size(10, GiB), Size(20, GiB), Size(40, GiB) - 1, Size(40, GiB),
      Size(45, GiB), Size(60, GiB) }

BDevice == [path : Paths, total_size : DeviceSizes]

FilesystemType == {"btrfs", "ext4", "xfs", "f2fs", "ntfs"}

\* lists of distinct devices, at most MaxDevices long.  A path only tells
\* one device from another, so the devices of a list are named in list order.
DeviceLists ==
    { ds \in UNION { [1..n -> BDevice] : n \in 0..MaxDevices } :
        \A i \in DOMAIN ds : ds[i].path = i }

Yes == "yes"
No == "no"
YesNo == {Yes, No}

Prompt(p, a) == [prompt |-> p, answer |-> a]

Shown(p) == \E i \in DOMAIN prompts : prompts[i].prompt = p

TimesShown(p) == Cardinality({ i \in DOMAIN prompts : prompts[i].prompt = p })

Answered(p, a) == \E i \in DOMAIN prompts : prompts[i] = Prompt(p, a)

(* ---- partitions ------------------------------------------------------ *)
PartitionModification(start, length, mountpoint, fs_type, mount_options, flags) ==
    [ status |-> "Create", type |-> "Primary",
      start |-> start, length |-> length,
      mountpoint |-> mountpoint, fs_type |-> fs_type,
      mount_options |-> mount_options, flags |-> flags,
      btrfs_subvols |-> <<>> ]

SubvolumeModification(name, mountpoint) == [name |-> name, mountpoint |-> mountpoint]

DeviceModification(device, wipe) == [device |-> device, wipe |-> wipe, partitions |-> <<>>]

add_partition(mod, partition) ==
    [mod EXCEPT !.partitions = Append(@, partition)]

\* the two firmware branches exchanged
_boot_partition_swapped(has_uefi) ==
    LET start == IF has_uefi THEN Size(3, MiB) ELSE Size(1, MiB)
        size  == IF has_uefi THEN Size(203, MiB) ELSE Size(512, MiB)
    IN  PartitionModification(start, size, "/boot", "fat32", <<>>, <<"Boot">>)

_boot_partition(has_uefi) ==
    LET start == IF has_uefi THEN Size(1, MiB) ELSE Size(3, MiB)
        size  == IF has_uefi THEN Size(512, MiB) ELSE Size(203, MiB)
    IN  PartitionModification(start, size, "/boot", "fat32", <<>>, <<"Boot">>)

\* the options of the filesystem menu
ask_for_main_filesystem_format(advanced_options) ==
    {"btrfs", "ext4", "xfs", "f2fs"} \cup (IF advanced_options THEN {"ntfs"} ELSE {})

\* the compression test inverted
MountOptions_inverted(compression) == IF compression THEN <<>> ELSE <<"compress=zstd">>

MountOptions(compression) == IF compression THEN <<"compress=zstd">> ELSE <<>>

RootStart(has_uefi) == IF has_uefi THEN Size(513, MiB) ELSE Size(206, MiB)

(* ---- suggest_single_disk_layout -------------------------------------- *)
min_size_to_allow_home_part == Size(40, GiB)
root_partition_size == Size(20, GiB)

\* the separate-home menu is run
HomePromptShown(using_subvolumes, total_size, separate_home) ==
    /\ ~using_subvolumes
    /\ total_size >= min_size_to_allow_home_part
    /\ separate_home = None

\* the 40 GiB threshold forgotten when separate_home is given
UsingHomePartition_no_threshold(using_subvolumes, total_size, separate_home, home_answer) ==
    IF using_subvolumes THEN FALSE
    ELSE IF separate_home = None
         THEN total_size >= min_size_to_allow_home_part /\ home_answer = Yes
    ELSE separate_home = PyTrue

UsingHomePartition(using_subvolumes, total_size, separate_home, home_answer) ==
    IF using_subvolumes \/ ~(total_size >= min_size_to_allow_home_part) THEN FALSE
    ELSE IF separate_home = None THEN home_answer = Yes
    ELSE separate_home = PyTrue

\* root always takes the whole device
SingleRootLength_whole(using_subvolumes, total_size, using_home_partition) ==
    SizePercent(100, total_size)

SingleRootLength(using_subvolumes, total_size, using_home_partition) ==
    IF using_subvolumes \/ total_size < min_size_to_allow_home_part \/ ~using_home_partition
    THEN SizePercent(100, total_size)
    ELSE SizeMin(total_size, root_partition_size)

DefaultSubvolumes ==
    << SubvolumeModification("@", "/"),
       SubvolumeModification("@home", "/home"),
       SubvolumeModification("@log", "/var/log"),
       SubvolumeModification("@pkg", "/var/cache/pacman/pkg"),
       SubvolumeModification("@.snapshots", "/.snapshots") >>

\* the root partition keeps its own mountpoint next to the subvolumes
SingleRootPartition_mounted(has_uefi, using_subvolumes, length, fs_type, compression) ==
    LET p == PartitionModification(RootStart(has_uefi), length, "/",
                 fs_type, MountOptions(compression), <<>>)
    IN  IF using_subvolumes THEN [p EXCEPT !.btrfs_subvols = DefaultSubvolumes] ELSE p

SingleRootPartition(has_uefi, using_subvolumes, length, fs_type, compression) ==
    LET p == PartitionModification(RootStart(has_uefi), length,
                 IF ~using_subvolumes THEN "/" ELSE None,
                 fs_type, MountOptions(compression), <<>>)
    IN  IF using_subvolumes THEN [p EXCEPT !.btrfs_subvols = DefaultSubvolumes] ELSE p

\* /home placed at the end of the root partition
SingleHomePartition_at_root_end(root_partition, total_size, fs_type, compression) ==
    PartitionModification(root_partition.start + root_partition.length,
        SizePercent(100, total_size), "/home", fs_type, MountOptions(compression), <<>>)

SingleHomePartition(root_partition, total_size, fs_type, compression) ==
    PartitionModification(root_partition.length, SizePercent(100, total_size),
        "/home", fs_type, MountOptions(compression), <<>>)

\* the whole call: the returned modification and the menus run on the way
suggest_single_disk_layout(has_uefi, device, filesystem_type, separate_home, fs_answer, subvol_answer, compression_answer, home_answer) ==
    LET fs_type == IF filesystem_type = None THEN fs_answer ELSE filesystem_type
        p1 == IF filesystem_type = None THEN <<Prompt("filesystem", fs_answer)>> ELSE <<>>
        using_subvolumes == fs_type = "btrfs" /\ subvol_answer = Yes
        compression == fs_type = "btrfs" /\ compression_answer = Yes
        p2 == IF fs_type = "btrfs"
              THEN <<Prompt("subvolumes", subvol_answer),
                     Prompt("compression", compression_answer)>>
              ELSE <<>>
        total_size == device.total_size
        using_home_partition ==
            UsingHomePartition(using_subvolumes, total_size, separate_home, home_answer)
        p3 == IF HomePromptShown(using_subvolumes, total_size, separate_home)
              THEN <<Prompt("separate_home", home_answer)>> ELSE <<>>
        length == SingleRootLength(using_subvolumes, total_size, using_home_partition)
        root_partition ==
            SingleRootPartition(has_uefi, using_subvolumes, length, fs_type, compression)
        m1 == add_partition(DeviceModification(device, TRUE), _boot_partition(has_uefi))
        m2 == add_partition(m1, root_partition)
        m3 == IF ~using_subvolumes /\ using_home_partition
              THEN add_partition(m2,
                       SingleHomePartition(root_partition, total_size, fs_type, compression))
              ELSE m2
    IN  [ret |-> m3, prompts |-> p1 \o p2 \o p3]

(* ---- suggest_multi_disk_layout --------------------------------------- *)
min_home_partition_size == Size(40, GiB)
desired_root_partition_size == Size(20, GiB)

\* the size filter left out
possible_devices_unfiltered(devices) == devices

\* filter(lambda x: x.device_info.total_size >= min_home_partition_size, devices)
possible_devices(devices) ==
    SelectSeq(devices, LAMBDA d : d.total_size >= min_home_partition_size)

\* max(seq, key=total_size): the first of the largest elements
MaxBySize(seq) ==
    LET i == CHOOSE k \in DOMAIN seq :
                 /\ \A j \in DOMAIN seq : seq[j].total_size <= seq[k].total_size
                 /\ \A j \in 1..(k - 1) : seq[j].total_size < seq[k].total_size
    IN  seq[i]

HomeDevice(devices) ==
    IF possible_devices(devices) # <<>> THEN MaxBySize(possible_devices(devices))
    ELSE NoDevice

\* the items of devices_delta, in insertion order
devices_delta(devices, home) ==
    LET rest == SelectSeq(devices, LAMBDA d : d # home)
    IN  [i \in DOMAIN rest |->
            [device |-> rest[i],
             delta |-> SizeSub(rest[i].total_size, desired_root_partition_size)]]

\* an insertion that puts an equal delta first: the sort is no longer stable
RECURSIVE InsertByDelta_unstable(_, _)
InsertByDelta_unstable(sorted, item) ==
    IF sorted = <<>> THEN <<item>>
    ELSE IF item.delta <= Head(sorted).delta THEN <<item>> \o sorted
    ELSE <<Head(sorted)>> \o InsertByDelta_unstable(Tail(sorted), item)

\* sorted(items, key=delta): a stable sort, as an insertion sort
RECURSIVE InsertByDelta(_, _)
InsertByDelta(sorted, item) ==
    IF sorted = <<>> THEN <<item>>
    ELSE IF item.delta < Head(sorted).delta THEN <<item>> \o sorted
    ELSE <<Head(sorted)>> \o InsertByDelta(Tail(sorted), item)

RECURSIVE sorted_delta(_)
sorted_delta(items) ==
    IF items = <<>> THEN <<>>
    ELSE InsertByDelta(sorted_delta(SubSeq(items, 1, Len(items) - 1)), items[Len(items)])

MultiRootPartition(has_uefi, root, fs_type, compression) ==
    PartitionModification(RootStart(has_uefi), SizePercent(100, root.total_size),
        "/", fs_type, MountOptions(compression), <<>>)

\* /home placed behind a boot area, as on the root device
MultiHomePartition_after_boot(home, fs_type, compression) ==
    PartitionModification(Size(513, MiB), SizePercent(100, home.total_size),
        "/home", fs_type, MountOptions(compression), <<>>)

MultiHomePartition(home, fs_type, compression) ==
    PartitionModification(Size(1, MiB), SizePercent(100, home.total_size),
        "/home", fs_type, MountOptions(compression), <<>>)

Outcome(ret, shown, home, root, exc) ==
    [ret |-> ret, prompts |-> shown, home_device |-> home, root_device |-> root,
     raised |-> exc]

\* the whole call: the returned list, the menus run, the two selections and
\* the exception that ended the call, if any
suggest_multi_disk_layout(has_uefi, devices, filesystem_type, fs_answer, compression_answer) ==
    LET fs_type == IF filesystem_type = None THEN fs_answer ELSE filesystem_type
        p1 == IF filesystem_type = None THEN <<Prompt("filesystem", fs_answer)>> ELSE <<>>
        home == HomeDevice(devices)
        sorted == sorted_delta(devices_delta(devices, home))
        root == sorted[1].device
        compression == fs_type = "btrfs" /\ compression_answer = Yes
        p2 == IF fs_type = "btrfs" THEN <<Prompt("compression", compression_answer)>>
              ELSE <<>>
        root_mod == add_partition(
                        add_partition(DeviceModification(root, TRUE),
                                      _boot_partition(has_uefi)),
                        MultiRootPartition(has_uefi, root, fs_type, compression))
        home_mod == add_partition(DeviceModification(home, TRUE),
                                  MultiHomePartition(home, fs_type, compression))
    IN  IF devices = <<>> THEN Outcome(<<>>, <<>>, NoDevice, NoDevice, None)
        ELSE IF sorted = <<>>
             THEN Outcome(<<>>, p1, home, NoDevice, "IndexError")
        ELSE IF home = NoDevice \/ root = NoDevice
             THEN Outcome(<<>>, p1 \o <<Prompt("capacity_advisory", "Continue")>>,
                          home, root, None)
        ELSE Outcome(<<root_mod, home_mod>>, p1 \o p2, home, root, None)

(* ---- select_devices ---------------------------------------------------- *)
\* MenuSelectionType
Skip == "Skip"
Reset == "Reset"
Selection == "Selection"
MenuSelectionType == {Skip, Reset, Selection}

\* the devices the device handler can report: the selection flows do not look
\* at sizes themselves, two sizes on either side of the planners' thresholds
HandlerSizes == { Size(20, GiB), Size(60, GiB) }

HandlerDeviceLists ==
    { ds \in DeviceLists : \A i \in DOMAIN ds : ds[i].total_size \in HandlerSizes }

Elements(seq) == { seq[i] : i \in DOMAIN seq }

\* the lists without repetition over a set of devices
DistinctLists(S) ==
    { l \in UNION { [1..n -> S] : n \in 0..Cardinality(S) } :
        \A i, j \in DOMAIN l : i # j => l[i] # l[j] }

\* Reset also hands back the preset
select_devices_reset_keeps(devices, preset_devices, choice_type, selected_device_info) ==
    LET ret == CASE choice_type = Reset -> preset_devices
                 [] choice_type = Skip -> preset_devices
                 [] choice_type = Selection ->
                        SelectSeq(devices, LAMBDA d : d \in selected_device_info)
    IN  [ret |-> ret, prompts |-> <<Prompt("devices", choice_type)>>]

\* the whole call: the returned list and the menu run
select_devices(devices, preset_devices, choice_type, selected_device_info) ==
    LET ret == CASE choice_type = Reset -> <<>>
                 [] choice_type = Skip -> preset_devices
                 [] choice_type = Selection ->
                        SelectSeq(devices, LAMBDA d : d \in selected_device_info)
    IN  [ret |-> ret, prompts |-> <<Prompt("devices", choice_type)>>]

\* what the table menu can hand back as choice.value
SelectedIf(choice_type, devices) ==
    IF choice_type = Selection THEN SUBSET Elements(devices) ELSE {{}}

(* ---- select_disk_config ------------------------------------------------ *)
DiskLayoutConfiguration(config_type, device_modifications, relative_mountpoint) ==
    [ config_type |-> config_type,
      device_modifications |-> device_modifications,
      relative_mountpoint |-> relative_mountpoint ]

\* Optional[DiskLayoutConfiguration]: the value None
NoConfig == DiskLayoutConfiguration(None, <<>>, None)

\* the entries of the partitioning menu
DiskLayoutType == {"Default", "Manual", "Pre_mount"}

MenuChoice(type_, value) == [type_ |-> type_, value |-> value]

PartitioningChoices ==
    { MenuChoice(Skip, None), MenuChoice(Reset, None) }
        \cup { MenuChoice(Selection, v) : v \in DiskLayoutType }

\* get_default_partition_layout, called without a filesystem type
get_default_partition_layout(has_uefi, devices, in) ==
    IF Len(devices) = 1
    THEN LET r == suggest_single_disk_layout(has_uefi, devices[1], None, None,
                      in.fs_answer, in.subvol_answer, in.compression_answer,
                      in.home_answer)
         IN  [ out |-> Outcome(<<r.ret>>, r.prompts, NoDevice, NoDevice, None),
               calls |-> <<"suggest_single_disk_layout">> ]
    ELSE [ out |-> suggest_multi_disk_layout(has_uefi, devices, None,
                       in.fs_answer, in.compression_answer),
           calls |-> <<"suggest_multi_disk_layout">> ]

\* next(filter(lambda x: x.device == device, preset), None): its index, or 0
PresetModIndex(preset_mods, device) ==
    IF \E i \in DOMAIN preset_mods : preset_mods[i].device = device
    THEN CHOOSE i \in DOMAIN preset_mods :
             /\ preset_mods[i].device = device
             /\ \A j \in 1..(i - 1) : preset_mods[j].device # device
    ELSE 0

\* what disk.manual_partitioning hands back for one device: nothing, the
\* partitions it was given, or a new list
ManualOutcomes == {"empty", "keep", "new"}

manual_partitioning(has_uefi, outcome, preset_partitions) ==
    CASE outcome = "empty" -> <<>>
      [] outcome = "keep" -> preset_partitions
      [] outcome = "new" -> <<_boot_partition(has_uefi)>>

\* the modification _manual_partitioning works on for one device, as it
\* leaves it
ManualMod(has_uefi, preset_mods, device, outcome) ==
    LET i == PresetModIndex(preset_mods, device)
        mod == IF i # 0 THEN preset_mods[i] ELSE DeviceModification(device, FALSE)
        partitions == manual_partitioning(has_uefi, outcome, mod.partitions)
    IN  IF partitions # <<>> THEN [mod EXCEPT !.partitions = partitions] ELSE mod

\* _manual_partitioning: the returned modifications, and the preset's
\* modifications as the loop leaves them (it assigns to their partitions)
_manual_partitioning(has_uefi, preset_mods, devices, manual) ==
    LET all == [k \in DOMAIN devices |->
                   ManualMod(has_uefi, preset_mods, devices[k], manual[devices[k].path])]
        touched(i) == { k \in DOMAIN devices :
                          PresetModIndex(preset_mods, devices[k]) = i }
    IN  [ modifications |-> SelectSeq(all, LAMBDA m : m.partitions # <<>>),
          preset_mods |-> [i \in DOMAIN preset_mods |->
                              IF touched(i) = {} THEN preset_mods[i]
                              ELSE all[CHOOSE k \in touched(i) : TRUE]] ]

ConfigOutcome(ret, shown, called, preset_mods, out) ==
    [ ret |-> ret, prompts |-> shown, calls |-> called, preset_mods |-> preset_mods,
      out |-> out ]

NoPlan == Outcome(<<>>, <<>>, NoDevice, NoDevice, None)

\* the whole call: the returned configuration, the menus run, the calls
\* made, the preset's modifications afterwards and what a planner returned
select_disk_config(has_uefi, devices, preset_config, choice, in) ==
    LET preset_mods == preset_config.device_modifications
        menu == <<Prompt("partitioning",
                    IF choice.type_ = Selection THEN choice.value ELSE choice.type_)>>
        preset_devices == [i \in DOMAIN preset_mods |-> preset_mods[i].device]
        sd == select_devices(devices, preset_devices, in.dev_choice, in.selected)
        layout == get_default_partition_layout(has_uefi, sd.ret, in)
        manual == _manual_partitioning(has_uefi, preset_mods, sd.ret, in.manual)
    IN  CASE choice.type_ = Skip ->
                 ConfigOutcome(preset_config, menu, <<>>, preset_mods, NoPlan)
          [] choice.type_ = Reset ->
                 ConfigOutcome(NoConfig, menu, <<>>, preset_mods, NoPlan)
          [] choice.type_ = Selection /\ choice.value = "Pre_mount" ->
                 ConfigOutcome(
                     DiskLayoutConfiguration("Pre_mount", in.mounted, in.path),
                     menu \o <<Prompt("prompt_dir", in.path)>>,
                     <<"prompt_dir", "detect_pre_mounted_mods">>, preset_mods, NoPlan)
          [] choice.type_ = Selection /\ choice.value # "Pre_mount" /\ sd.ret = <<>> ->
                 ConfigOutcome(NoConfig, menu \o sd.prompts, <<"select_devices">>,
                               preset_mods, NoPlan)
          [] choice.type_ = Selection /\ choice.value = "Default" /\ sd.ret # <<>> ->
                 ConfigOutcome(
                     IF layout.out.ret # <<>>
                     THEN DiskLayoutConfiguration("Default", layout.out.ret, None)
                     ELSE NoConfig,
                     menu \o sd.prompts \o layout.out.prompts,
                     <<"select_devices", "get_default_partition_layout">> \o layout.calls,
                     preset_mods, layout.out)
          [] choice.type_ = Selection /\ choice.value = "Manual" /\ sd.ret # <<>> ->
                 ConfigOutcome(
                     IF manual.modifications # <<>>
                     THEN DiskLayoutConfiguration("Manual", manual.modifications, None)
                     ELSE NoConfig,
                     menu \o sd.prompts,
                     <<"select_devices", "_manual_partitioning">>
                         \o [k \in DOMAIN sd.ret |-> "manual_partitioning"],
                     manual.preset_mods, NoPlan)

\* the presets a caller can pass: none, or a configuration an earlier call
\* returned for devices of this machine
PresetConfigs(has_uefi, devices) ==
    {NoConfig, DiskLayoutConfiguration("Pre_mount", <<>>, "/mnt")}
    \cup (IF devices = <<>> THEN {}
          ELSE { DiskLayoutConfiguration("Default",
                     <<suggest_single_disk_layout(has_uefi, devices[1], "ext4", PyTrue,
                           None, No, No, No).ret>>, None),
                 DiskLayoutConfiguration("Manual",
                     <<add_partition(DeviceModification(devices[Len(devices)], FALSE),
                                     _boot_partition(has_uefi))>>, None) })

(* ---- the state machine ----------------------------------------------- *)
\* the answers to the menus a call can run; a menu that is not run has no answer
FsAnswers(filesystem_type, advanced_options) ==
    IF filesystem_type = None THEN ask_for_main_filesystem_format(advanced_options)
    ELSE {None}

AnswersIf(shown) == IF shown THEN YesNo ELSE {No}

Init ==
    /\ uefi \in BOOLEAN
    /\ op = "none"
    /\ args = [devices |-> <<>>, filesystem_type |-> None, separate_home |-> None]
    /\ prompts = <<>>
    /\ home_device = NoDevice
    /\ root_device = NoDevice
    /\ result = <<>>
    /\ raised = None
    /\ handler_devices = <<>>
    /\ preset = <<>>
    /\ preset_after = <<>>
    /\ returned = <<>>
    /\ calls = <<>>

SuggestSingleDiskLayout ==
    /\ op = "none"
    /\ \E device \in BDevice, filesystem_type \in FilesystemType \cup {None},
          advanced_options \in BOOLEAN, separate_home \in {PyTrue, PyFalse, None} :
       \E fs_answer \in FsAnswers(filesystem_type, advanced_options) :
       \E subvol_answer \in AnswersIf("btrfs" \in {filesystem_type, fs_answer}),
          compression_answer \in AnswersIf("btrfs" \in {filesystem_type, fs_answer}),
          home_answer \in AnswersIf(separate_home = None) :
        LET r == suggest_single_disk_layout(uefi, device, filesystem_type, separate_home,
                     fs_answer, subvol_answer, compression_answer, home_answer)
        IN  /\ op' = "single"
            /\ args' = [devices |-> <<device>>, filesystem_type |-> filesystem_type,
                        separate_home |-> separate_home]
            /\ prompts' = r.prompts
            /\ result' = <<r.ret>>
            /\ raised' = None
            /\ UNCHANGED <<uefi, home_device, root_device>>
            /\ UNCHANGED selection_vars

SuggestMultiDiskLayout ==
    /\ op = "none"
    /\ \E devices \in DeviceLists, filesystem_type \in FilesystemType \cup {None},
          advanced_options \in BOOLEAN :
       \E fs_answer \in FsAnswers(filesystem_type, advanced_options) :
       \E compression_answer \in AnswersIf("btrfs" \in {filesystem_type, fs_answer}) :
        LET r == suggest_multi_disk_layout(uefi, devices, filesystem_type,
                     fs_answer, compression_answer)
        IN  /\ op' = "multi"
            /\ args' = [devices |-> devices, filesystem_type |-> filesystem_type,
                        separate_home |-> None]
            /\ prompts' = r.prompts
            /\ home_device' = r.home_device
            /\ root_device' = r.root_device
            /\ result' = r.ret
            /\ raised' = r.raised
            /\ UNCHANGED uefi
            /\ UNCHANGED selection_vars

planner_vars == <<home_device, root_device, result, raised>>

SelectDevices ==
    /\ op = "none"
    /\ \E devices \in HandlerDeviceLists, choice_type \in MenuSelectionType :
       \E preset_devices \in DistinctLists(Elements(devices)),
          selected \in SelectedIf(choice_type, devices) :
        LET r == select_devices(devices, preset_devices, choice_type, selected)
        IN  /\ op' = "select_devices"
            /\ handler_devices' = devices
            /\ preset' = preset_devices
            /\ preset_after' = preset_devices
            /\ prompts' = r.prompts
            /\ returned' = r.ret
            /\ calls' = <<>>
            /\ UNCHANGED <<uefi, args>>
            /\ UNCHANGED planner_vars

\* the inputs of the branches a call of select_disk_config does not take are
\* fixed, so that each run of the handler is enumerated once
MountedMods(has_uefi, devices) ==
    {<<>>} \cup (IF devices = <<>> THEN {}
                 ELSE {<<add_partition(DeviceModification(devices[1], FALSE),
                                       _boot_partition(has_uefi))>>})

SelectDiskConfig ==
    /\ op = "none"
    /\ \E devices \in HandlerDeviceLists, choice \in PartitioningChoices :
       \E preset_config \in PresetConfigs(uefi, devices) :
        LET picks == choice.type_ = Selection /\ choice.value # "Pre_mount"
            preset_devices == [i \in DOMAIN preset_config.device_modifications |->
                                  preset_config.device_modifications[i].device]
        IN
        \E dev_choice \in (IF picks THEN MenuSelectionType ELSE {Skip}) :
        \E selected \in (IF picks THEN SelectedIf(dev_choice, devices) ELSE {{}}) :
        LET chosen == select_devices(devices, preset_devices, dev_choice, selected).ret
            plans == picks /\ choice.value = "Default" /\ chosen # <<>>
            manually == picks /\ choice.value = "Manual" /\ chosen # <<>>
            mounts == choice.type_ = Selection /\ choice.value = "Pre_mount"
        IN
        \E advanced_option \in (IF plans THEN BOOLEAN ELSE {FALSE}) :
        \E fs_answer \in (IF plans THEN ask_for_main_filesystem_format(advanced_option)
                          ELSE {None}) :
        \E subvol_answer \in AnswersIf(fs_answer = "btrfs" /\ Len(chosen) = 1),
           compression_answer \in AnswersIf(fs_answer = "btrfs"),
           home_answer \in AnswersIf(plans /\ Len(chosen) = 1),
           manual \in (IF manually
                       THEN [{ d.path : d \in Elements(chosen) } -> ManualOutcomes]
                       ELSE {<<>>}),
           mounted \in (IF mounts THEN MountedMods(uefi, devices) ELSE {<<>>}) :
        LET in == [ dev_choice |-> dev_choice, selected |-> selected,
                    fs_answer |-> fs_answer, subvol_answer |-> subvol_answer,
                    compression_answer |-> compression_answer,
                    home_answer |-> home_answer, manual |-> manual,
                    mounted |-> mounted, path |-> "/mnt" ]
            r == select_disk_config(uefi, devices, preset_config, choice, in)
        IN  /\ op' = "select_disk_config"
            /\ handler_devices' = devices
            /\ preset' = preset_config
            /\ preset_after' = [preset_config EXCEPT !.device_modifications = r.preset_mods]
            /\ prompts' = r.prompts
            /\ returned' = r.ret
            /\ calls' = r.calls
            /\ result' = r.out.ret
            /\ home_device' = r.out.home_device
            /\ root_device' = r.out.root_device
            /\ raised' = r.out.raised
            /\ UNCHANGED <<uefi, args>>

Next ==
    \/ SuggestSingleDiskLayout
    \/ SuggestMultiDiskLayout
    \/ SelectDevices
    \/ SelectDiskConfig

Spec == Init /\ [][Next]_vars

(* ---- what the claims speak about -------------------------------------- *)
\* the partitions of the k-th returned modification
Parts(k) == result[k].partitions

Overlap(p, q) == p.start < q.start + q.length /\ q.start < p.start + p.length

HasMount(k, mp) == \E i \in DOMAIN Parts(k) : Parts(k)[i].mountpoint = mp

\* the filesystem type the call settled on (None when it never asked)
ResolvedFs ==
    IF args.filesystem_type # None THEN args.filesystem_type
    ELSE IF Shown("filesystem") THEN prompts[1].answer
    ELSE None

SingleReturned == op = "single"
MultiReturnedPlan == op = "multi" /\ result # <<>>

\* C1: no two partitions of one returned modification overlap
C1_NoOverlap ==
    \A k \in DOMAIN result : \A i, j \in DOMAIN Parts(k) :
        i # j => ~Overlap(Parts(k)[i], Parts(k)[j])

\* C2: every partition of a returned modification ends within its device
C2_FitsDevice ==
    \A k \in DOMAIN result : \A i \in DOMAIN Parts(k) :
        Parts(k)[i].start + Parts(k)[i].length <= result[k].device.total_size

\* C3: the first partition of every single-disk modification and of every
\* multi-disk root modification is the boot partition: 1 MiB + 512 MiB under
\* UEFI, 3 MiB + 203 MiB under BIOS, primary, create, Fat32, /boot, Boot flag
C3_BootPartition ==
    (SingleReturned \/ MultiReturnedPlan) =>
        LET b == Parts(1)[1]
        IN  /\ b.start = (IF uefi THEN 1 ELSE 3) * MiB
            /\ b.length = (IF uefi THEN 512 ELSE 203) * MiB
            /\ b.status = "Create" /\ b.type = "Primary"
            /\ b.fs_type = "fat32" /\ b.mountpoint = "/boot"
            /\ b.flags = <<"Boot">>

C3_Witness ==
    /\ MultiReturnedPlan /\ ~uefi
    /\ Parts(1)[1].start = 3 * MiB /\ Parts(1)[1].length = 203 * MiB

\* a separate home was requested in a single-disk call without subvolumes
SeparateHomeRequested ==
    /\ SingleReturned
    /\ ~Answered("subvolumes", Yes)
    /\ (args.separate_home = PyTrue \/ Answered("separate_home", Yes))

\* C4: on a device of at least 40 GiB, without subvolumes and with a separate
\* home requested, the last partition is /home, as long as the whole device
\* and starting at the root partition's length
C4_HomePartition ==
    (SeparateHomeRequested /\ args.devices[1].total_size >= 40 * GiB) =>
        LET n == Len(Parts(1))
            home == Parts(1)[n]
        IN  /\ n = 3
            /\ home.mountpoint = "/home"
            /\ home.length = args.devices[1].total_size
            /\ home.start = Parts(1)[2].length

C4_Witness ==
    /\ SeparateHomeRequested /\ Answered("separate_home", Yes)
    /\ args.devices[1].total_size = 45 * GiB
    /\ Len(Parts(1)) = 3 /\ Parts(1)[3].start = 20 * GiB

\* C5: on a device below 40 GiB the single-disk planner never runs the
\* separate-home menu, never builds a /home partition, and the root partition
\* is as long as the whole device
C5_SmallDevice ==
    (SingleReturned /\ args.devices[1].total_size < 40 * GiB) =>
        /\ ~Shown("separate_home")
        /\ ~HasMount(1, "/home")
        /\ Parts(1)[2].length = args.devices[1].total_size

C5_Witness ==
    /\ SingleReturned /\ args.devices[1].total_size = 40 * GiB - 1
    /\ args.separate_home = PyTrue /\ ~Answered("subvolumes", Yes)
    /\ Len(Parts(1)) = 2

\* C6: with subvolumes the root partition carries exactly the five default
\* subvolumes in order, has no mountpoint of its own, and no /home partition
\* follows; in every other single-disk plan root is mounted at / without
\* subvolumes
C6_Subvolumes ==
    SingleReturned =>
        LET root == Parts(1)[2]
        IN  IF ResolvedFs = "btrfs" /\ Answered("subvolumes", Yes)
            THEN /\ root.btrfs_subvols =
                      << [name |-> "@", mountpoint |-> "/"],
                         [name |-> "@home", mountpoint |-> "/home"],
                         [name |-> "@log", mountpoint |-> "/var/log"],
                         [name |-> "@pkg", mountpoint |-> "/var/cache/pacman/pkg"],
                         [name |-> "@.snapshots", mountpoint |-> "/.snapshots"] >>
                 /\ root.mountpoint = None
                 /\ Len(Parts(1)) = 2
                 /\ ~HasMount(1, "/home")
            ELSE /\ root.mountpoint = "/"
                 /\ root.btrfs_subvols = <<>>

C6_Witness ==
    /\ SingleReturned /\ Answered("subvolumes", Yes)
    /\ args.separate_home = PyTrue /\ args.devices[1].total_size = 60 * GiB
    /\ Len(Parts(1)[2].btrfs_subvols) = 5

(* ---- the multi-disk planner ------------------------------------------- *)
InList(d) == \E i \in DOMAIN args.devices : args.devices[i] = d

IndexOf(d) == CHOOSE i \in DOMAIN args.devices : args.devices[i] = d

SomeDeviceQualifies == \E i \in DOMAIN args.devices : args.devices[i].total_size >= 40 * GiB

SizesAre(S) == { args.devices[i].total_size : i \in DOMAIN args.devices } = S

\* C7: over two or more devices the home device is the largest of those of at
\* least 40 GiB (none when there is none), the root device is, among the
\* devices other than the home device, the one with the smallest signed
\* total_size - 20 GiB, the earliest in the list among equals, and never the
\* home device; for 10, 45 and 60 GiB home is the 60 GiB and root the 10 GiB one
C7_Selection ==
    (op = "multi" /\ Len(args.devices) >= 2) =>
        /\ raised = None
        /\ IF SomeDeviceQualifies
           THEN /\ InList(home_device)
                /\ home_device.total_size >= 40 * GiB
                /\ \A i \in DOMAIN args.devices :
                       args.devices[i].total_size <= home_device.total_size
           ELSE home_device = NoDevice
        /\ InList(root_device)
        /\ root_device # home_device
        /\ \A i \in DOMAIN args.devices :
               (args.devices[i] # home_device /\ args.devices[i] # root_device) =>
                   \/ root_device.total_size - 20 * GiB < args.devices[i].total_size - 20 * GiB
                   \/ /\ root_device.total_size = args.devices[i].total_size
                      /\ IndexOf(root_device) < i
        /\ (Len(args.devices) = 3 /\ SizesAre({10 * GiB, 45 * GiB, 60 * GiB})) =>
               /\ home_device.total_size = 60 * GiB
               /\ root_device.total_size = 10 * GiB

C7_Witness ==
    /\ op = "multi" /\ Len(args.devices) = 3
    /\ args.devices[1].total_size = 45 * GiB
    /\ args.devices[2].total_size = 10 * GiB
    /\ args.devices[3].total_size = 60 * GiB
    /\ home_device = args.devices[3] /\ root_device = args.devices[2]
    /\ Len(result) = 2

AllBelowHomeMinimum ==
    \A i \in DOMAIN args.devices : args.devices[i].total_size < 40 * GiB

NoPlanAfterAdvisory ==
    /\ result = <<>>
    /\ TimesShown("capacity_advisory") = 1
    /\ ~Shown("compression")

\* C8 as stated: whenever every device passed is below 40 GiB, the planner
\* returns the empty list, runs the capacity advisory exactly once and asks
\* nothing about compression
C8_AsStated == (op = "multi" /\ AllBelowHomeMinimum) => NoPlanAfterAdvisory

\* C8: whenever at least one device is passed and every device passed is
\* below 40 GiB, the planner returns the empty list, runs the capacity
\* advisory exactly once, asks nothing about compression and raises nothing
C8_AllSmall ==
    (op = "multi" /\ args.devices # <<>> /\ AllBelowHomeMinimum) =>
        NoPlanAfterAdvisory /\ raised = None

C8_Witness ==
    /\ op = "multi" /\ Len(args.devices) = 2 /\ AllBelowHomeMinimum
    /\ ResolvedFs = "btrfs"
    /\ prompts[Len(prompts)].prompt = "capacity_advisory"
    /\ result = <<>>

\* C9: for a list of at least one device, when the home device or the root
\* device cannot be selected the planner returns the empty list after the
\* capacity advisory and raises no exception
C9_NoException ==
    (op = "multi" /\ args.devices # <<>>
        /\ (home_device = NoDevice \/ root_device = NoDevice)) =>
        /\ raised = None
        /\ result = <<>>
        /\ Shown("capacity_advisory")

\* C10: when both devices are selected the planner returns the root
\* modification and then the home modification, both wiping; the first holds
\* the boot partition and a root partition at 513 MiB (UEFI) or 206 MiB (BIOS)
\* as long as the root device, the second one /home partition at 1 MiB as long
\* as the home device; no partition has subvolumes
C10_TwoModifications ==
    (op = "multi" /\ home_device # NoDevice /\ root_device # NoDevice) =>
        /\ Len(result) = 2
        /\ result[1].device = root_device /\ result[1].wipe
        /\ result[2].device = home_device /\ result[2].wipe
        /\ Len(Parts(1)) = 2
        /\ Parts(1)[1].mountpoint = "/boot" /\ Parts(1)[1].fs_type = "fat32"
        /\ Parts(1)[1].start + Parts(1)[1].length = Parts(1)[2].start
        /\ Parts(1)[2].mountpoint = "/"
        /\ Parts(1)[2].start = (IF uefi THEN 513 ELSE 206) * MiB
        /\ Parts(1)[2].length = root_device.total_size
        /\ Parts(1)[2].fs_type = ResolvedFs
        /\ Len(Parts(2)) = 1
        /\ Parts(2)[1].mountpoint = "/home"
        /\ Parts(2)[1].start = 1 * MiB
        /\ Parts(2)[1].length = home_device.total_size
        /\ Parts(2)[1].fs_type = ResolvedFs
        /\ \A k \in 1..2 : \A i \in DOMAIN Parts(k) : Parts(k)[i].btrfs_subvols = <<>>

C10_Witness ==
    /\ op = "multi" /\ ResolvedFs = "btrfs" /\ uefi
    /\ home_device.total_size = 60 * GiB /\ root_device.total_size = 20 * GiB
    /\ Len(result) = 2 /\ Parts(2)[1].length = 60 * GiB

(* ---- root length, contiguity and mount options ------------------------ *)
\* the single-disk call decided for a separate /home partition
HomeChosen == SeparateHomeRequested /\ args.devices[1].total_size >= 40 * GiB

\* C11: the single-disk root partition is as long as the whole device when
\* subvolumes are used, the device is below 40 GiB or no separate home was
\* chosen, and exactly 20 GiB otherwise; the modification wipes the device and
\* holds boot, root and then home exactly when a separate home was chosen
C11_RootLength ==
    SingleReturned =>
        LET total == args.devices[1].total_size
        IN  /\ Parts(1)[2].length =
                   (IF Answered("subvolumes", Yes) \/ total < 40 * GiB \/ ~HomeChosen
                    THEN total ELSE 20 * GiB)
            /\ (HomeChosen => 20 * GiB <= total)
            /\ Len(result) = 1 /\ result[1].wipe
            /\ result[1].device = args.devices[1]
            /\ Len(Parts(1)) = (IF HomeChosen THEN 3 ELSE 2)
            /\ Parts(1)[1].mountpoint = "/boot"
            /\ Parts(1)[2].mountpoint \in {"/", None}
            /\ Parts(1)[2].start = (IF uefi THEN 513 ELSE 206) * MiB
            /\ (HomeChosen => Parts(1)[3].mountpoint = "/home")

C11_Witness ==
    /\ HomeChosen /\ args.separate_home = PyTrue
    /\ args.devices[1].total_size = 40 * GiB
    /\ Parts(1)[2].length = 20 * GiB /\ Len(Parts(1)) = 3

\* C12: in every single-disk plan each partition after the first starts
\* where the partition before it ends
C12_Contiguous ==
    SingleReturned =>
        \A i \in 2..Len(Parts(1)) :
            Parts(1)[i].start = Parts(1)[i - 1].start + Parts(1)[i - 1].length

\* the root and home partitions of the returned plan
DataPartitions ==
    { q \in UNION { { Parts(k)[i] : i \in DOMAIN Parts(k) } : k \in DOMAIN result } :
        q.mountpoint # "/boot" }

BootPartitions ==
    { q \in UNION { { Parts(k)[i] : i \in DOMAIN Parts(k) } : k \in DOMAIN result } :
        q.mountpoint = "/boot" }

\* C13: in both planners every root and home partition has the mount options
\* ['compress=zstd'] when compression was asked for and answered yes, and none
\* otherwise; the compression menu is run only for Btrfs, so no partition of
\* another filesystem has mount options; root and home agree, and the boot
\* partition has none
C13_MountOptions ==
    (SingleReturned \/ op = "multi") =>
        /\ Shown("compression") => ResolvedFs = "btrfs"
        /\ \A q \in DataPartitions :
               q.mount_options =
                   (IF Answered("compression", Yes) THEN <<"compress=zstd">> ELSE <<>>)
        /\ ResolvedFs # "btrfs" => \A q \in DataPartitions : q.mount_options = <<>>
        /\ \A q, r \in DataPartitions : q.mount_options = r.mount_options
        /\ \A b \in BootPartitions : b.mount_options = <<>>

C13_Witness ==
    /\ MultiReturnedPlan /\ Answered("compression", Yes)
    /\ Parts(1)[2].mount_options = <<"compress=zstd">>
    /\ Parts(2)[1].mount_options = <<"compress=zstd">>
    /\ Parts(1)[1].mount_options = <<>>

(* ---- skip and reset ---------------------------------------------------- *)
\* the call ran its one menu and nothing else: no planner, no manual
\* partitioning, no further prompt, and the preset is as it was passed
OnlyTheMenu ==
    /\ Len(prompts) = 1
    /\ calls = <<>>
    /\ result = <<>> /\ home_device = NoDevice /\ root_device = NoDevice
    /\ raised = None
    /\ preset_after = preset

\* C14: select_disk_config returns the preset on Skip and None on Reset,
\* select_devices returns the preset list on Skip and the empty list on Reset,
\* and in these four cases nothing but the one menu is run and the preset's
\* device modifications are left as they were
C14_SkipReset ==
    /\ (op = "select_disk_config" /\ prompts[1] = Prompt("partitioning", Skip)) =>
           returned = preset /\ OnlyTheMenu
    /\ (op = "select_disk_config" /\ prompts[1] = Prompt("partitioning", Reset)) =>
           returned = NoConfig /\ OnlyTheMenu
    /\ (op = "select_devices" /\ prompts[1] = Prompt("devices", Skip)) =>
           returned = preset /\ OnlyTheMenu
    /\ (op = "select_devices" /\ prompts[1] = Prompt("devices", Reset)) =>
           returned = <<>> /\ OnlyTheMenu

C14_Witness ==
    /\ op = "select_disk_config" /\ prompts[1] = Prompt("partitioning", Skip)
    /\ preset.config_type = "Manual" /\ Len(preset.device_modifications) = 1
    /\ returned = preset

\* reachable: manual partitioning rewrites the partitions of a preset's
\* modification, and the default layout is planned for two selected devices
ManualRewritesPreset ==
    op = "select_disk_config" /\ preset_after # preset /\ returned.config_type = "Manual"

DefaultPlansTwoDevices ==
    /\ op = "select_disk_config" /\ returned.config_type = "Default"
    /\ Len(returned.device_modifications) = 2
    /\ calls[Len(calls)] = "suggest_multi_disk_layout"
====
